---- MODULE Spec2Model ----
(***************************************************************************)
(* Middleware service for per-room HVAC control (middleware_service.py).   *)
(*                                                                         *)
(* Two threads share the MiddlewareService object:                         *)
(*   - the MQTT network thread, which runs on_message once per delivered   *)
(*     message (callbacks are serialised by that thread);                  *)
(*   - the thread of run(), which seeds hvac_active with one               *)
(*     poll_hvac_status per room and then loops over a copy of the         *)
(*     temperatures, calling send_hvac_command where needed.               *)
(* The control thread blocks in requests.get/post and time.sleep, so the   *)
(* listener interleaves between every two steps of it.                     *)
(*                                                                         *)
(* Temperatures are Python floats; the model keeps them in tenths of a     *)
(* degree (31.5 is 315).                                                   *)
(***************************************************************************)
EXTENDS Integers, Sequences, FiniteSets, TLC

----------------------------------------------------------------------------
(* Bounds of the model *)

\* how many of the configured rooms the model runs with
NumRooms == 2
\* cap on invalid_counts (the code's counter is unbounded)
MaxInvalid == 4
\* cap on the number of table states recorded while one export is in progress
MaxStood == 2
\* accepted backend commands that are remembered
MaxAccepted == 3

----------------------------------------------------------------------------
(* Configuration *)

AllRooms == <<"room1", "room2", "room3", "room4", "room5">>
ROOMS == SubSeq(AllRooms, 1, NumRooms)
RoomSet == {ROOMS[i] : i \in 1..Len(ROOMS)}

API_Rerty_Limit == 3
Invalid_Data_Limit == 3

\* Python's None, and the two booleans of the tri-state hvac_active
None == "None"
\* variant: false is recorded as None
PyBool_falsy(b) == IF b THEN "True" ELSE "None"
PyBool(b) == IF b THEN "True" ELSE "False"

----------------------------------------------------------------------------
(* Python dicts.  temperatures is iterated by the control loop, so it keeps *)
(* its insertion order: a sequence of <<key, value>> items.  The other      *)
(* tables are only indexed: functions over their key set.                   *)

Keys(d) == {d[i][1] : i \in 1..Len(d)}
Get(d, k) == d[CHOOSE i \in 1..Len(d) : d[i][1] = k][2]
\* variant: an assignment moves the key to the end of the table
SetItem_reinsert(d, k, v) ==
    Append(SelectSeq(d, LAMBDA it : it[1] # k), <<k, v>>)
SetItem(d, k, v) ==
    IF k \in Keys(d)
    THEN [i \in 1..Len(d) |-> IF d[i][1] = k THEN <<k, v>> ELSE d[i]]
    ELSE Append(d, <<k, v>>)
\* variant: the assignment is written to every key of the table
Put_every(f, k, v) == [x \in (DOMAIN f) \cup {k} |-> v]
\* variant: an assignment to a key the table does not hold is dropped
Put_existing(f, k, v) == [x \in DOMAIN f |-> IF x = k THEN v ELSE f[x]]
Put(f, k, v) == [x \in (DOMAIN f) \cup {k} |-> IF x = k THEN v ELSE f[x]]

----------------------------------------------------------------------------
(* float(msg.payload.decode()): the payload is a sequence of characters.    *)
(* Accepted here: an optional sign, digits, an optional point and digits    *)
(* (at least one digit in all), and "nan"; anything else is a ValueError.   *)
(* The result is in tenths; the payloads of the model carry at most one     *)
(* fractional digit.                                                        *)

Digits == {"0", "1", "2", "3", "4", "5", "6", "7", "8", "9"}
DigitVal(c) ==
    CASE c = "0" -> 0 [] c = "1" -> 1 [] c = "2" -> 2 [] c = "3" -> 3
      [] c = "4" -> 4 [] c = "5" -> 5 [] c = "6" -> 6 [] c = "7" -> 7
      [] c = "8" -> 8 [] c = "9" -> 9

RECURSIVE NatVal(_)
NatVal(s) == IF s = <<>> THEN 0
             ELSE NatVal(SubSeq(s, 1, Len(s) - 1)) * 10 + DigitVal(s[Len(s)])

AllDigits(s) == \A i \in 1..Len(s) : s[i] \in Digits
Points(s) == {i \in 1..Len(s) : s[i] = "."}

ValueError == [kind |-> "ValueError"]
NaN == [kind |-> "nan"]
Num(t) == [kind |-> "num", tenths |-> t]

Unsigned(s) ==
    LET pts == Points(s) IN
    IF Cardinality(pts) > 1 THEN ValueError
    ELSE LET p == IF pts = {} THEN Len(s) + 1 ELSE CHOOSE i \in pts : TRUE
             int == SubSeq(s, 1, p - 1)
             frac == SubSeq(s, p + 1, Len(s))
         IN IF AllDigits(int) /\ AllDigits(frac) /\ Len(int) + Len(frac) >= 1
            THEN Num(NatVal(int) * 10 + (IF frac = <<>> THEN 0 ELSE DigitVal(frac[1])))
            ELSE ValueError

Float(s) ==
    IF s = <<"n", "a", "n">> THEN NaN
    ELSE IF s # <<>> /\ s[1] \in {"+", "-"}
         THEN LET u == Unsigned(Tail(s)) IN
              IF u.kind = "num" /\ s[1] = "-" THEN Num(0 - u.tenths) ELSE u
         ELSE Unsigned(s)

\* variants: the lower bound is exclusive; the upper bound is 60
InRange_exclusive(f) == f.kind = "num" /\ 0 < f.tenths /\ f.tenths <= 500
InRange_wide(f) == f.kind = "num" /\ 0 <= f.tenths /\ f.tenths <= 600
\* line 107: 0 <= temp <= 50 (false for nan)
InRange(f) == f.kind = "num" /\ 0 <= f.tenths /\ f.tenths <= 500

\* line 103: msg.topic.split("/")[1]; the topic is given as its segments
HasRoom(topic) == Len(topic) >= 2
TopicRoom(topic) == topic[2]

\* variant: the fault is raised one reading late
LimitReached_late(n) == n > Invalid_Data_Limit
\* line 124
LimitReached(n) == n >= Invalid_Data_Limit

\* variant: the threshold is 29
should_activate_lower(temp) == temp > 290
\* variant: the threshold itself activates
should_activate_inclusive(temp) == temp >= 300
\* line 212
should_activate(temp) == temp > 300

\* lines 132 and 159: for attempt in range(API_Rerty_Limit) has no attempt left
\* after attempt number a (counted from 0)
Exhausted(a) == a + 1 >= API_Rerty_Limit

\* variant: exhaustion is logged but not recorded
CommandOutcome_unmarked(err, r, ok) == Put(err, r, FALSE)
\* lines 170 and 185: api_error after a send_hvac_command that ended ok or not
CommandOutcome(err, r, ok) == Put(err, r, ~ok)

----------------------------------------------------------------------------
(* State *)

VARIABLES
    temperatures,    \* self.temperatures: ordered items <<room, tenths>>
    hvac_active,     \* self.hvac_active: room -> "None" | "True" | "False"
    invalid_counts,  \* self.invalid_counts: room -> count
    sensor_error,    \* self.sensor_error: room -> BOOLEAN
    api_error,       \* self.api_error: room -> BOOLEAN
    pc,              \* where run() is: poll, copy, eval, send, set_active, sleep
    poll_idx,        \* index into ROOMS of the seed poll in progress (0: seeding over)
    temps,           \* the items of the copy the loop has still to visit
    room,            \* the loop's room while a command is in progress
    activate,        \* the argument of the send_hvac_command in progress
    attempt,         \* the attempt counter of the poll or command in progress
    invalid_run,     \* history: invalid readings of a configured room since its last valid one
    listening,       \* the on_message call that has made some of its assignments: the
                     \* assignments to do, their values, the tables when it began
    export_pc,       \* where the exporter is: idle, reading, done
    snapshot,        \* dashboard: the tables the exporter has read for its response
    stood,           \* history: the exported tables as they stood between complete steps
                     \* of the listener and of run() since the export in progress began
    connection,      \* the MQTT client: connected, or in on_disconnect (reconnecting, waiting)
    room_status,     \* mock_legacy_api.py: room -> "active" | "inactive"
    response,        \* mock_legacy_api.py: the response of the last request
    accepted         \* history: the commands the backend has answered with 200, in order

vars == <<temperatures, hvac_active, invalid_counts, sensor_error, api_error,
          pc, poll_idx, temps, room, activate, attempt, invalid_run,
          listening, export_pc, snapshot, stood, connection,
          room_status, response, accepted>>

exporter_vars == <<listening, export_pc, snapshot, stood>>
mqtt_vars == <<connection>>
backend_vars == <<room_status, response, accepted>>

listener_vars == <<temperatures, invalid_counts, sensor_error, invalid_run>>

----------------------------------------------------------------------------
(* Inputs: the messages delivered to on_message *)

Chars(n) ==
    CASE n = 0 -> <<"0">>
      [] n = 22 -> <<"2", "2">>
      [] n = 25 -> <<"2", "5">>
      [] n = 30 -> <<"3", "0">>
      [] n = 50 -> <<"5", "0">>
      [] n = 60 -> <<"6", "0">>
      [] n = 100 -> <<"1", "0", "0">>

\* payloads that are readings in [0, 50], with the reading in tenths
ValidReadings ==
    { <<Chars(0), 0>>, <<Chars(30), 300>>, <<<<"3", "1", ".", "5">>, 315>>,
      <<Chars(50), 500>> }
ValidPayloads == {v[1] : v \in ValidReadings}
\* unparsable, empty and out-of-range payloads
InvalidPayloads ==
    { <<"n", "o", "t", "_", "a", "_", "n", "u", "m", "b", "e", "r">>, <<>>,
      Chars(60), Chars(100), <<"-", "1", "0">>, <<"5", "0", ".", "1">>,
      <<"-", "0", ".", "1">>, <<"n", "a", "n">>, <<"3", "1", ".", "5", ".">> }

Topic(r) == <<"building", r, "temperature">>
Msg(t, p) == [topic |-> t, payload |-> p]

RoomMessages(payloads) == {Msg(Topic(r), p) : r \in RoomSet, p \in payloads}
\* an unconfigured room id, an empty room id, a topic without a second segment
StrayMessages ==
    { Msg(Topic("nonexistent"), Chars(22)), Msg(Topic(""), Chars(22)),
      Msg(<<"invalidtopic">>, Chars(25)) }
Messages == RoomMessages(ValidPayloads \cup InvalidPayloads) \cup StrayMessages

\* float() of every payload of the model
Payloads == {m.payload : m \in Messages}
FloatOf == [p \in Payloads |-> Float(p)]
\* the messages delivered while the control loop is followed: a reading at the
\* threshold, one above it and an out-of-range one, for every configured room
CoreMessages == RoomMessages({Chars(30), <<"3", "1", ".", "5">>, Chars(60)})
\* the messages delivered while stray topics are followed: an unconfigured
\* room, a topic without a second segment, and for every configured room a
\* reading and an empty payload
StrayCore ==
    { Msg(Topic("nonexistent"), Chars(22)), Msg(<<"invalidtopic">>, Chars(25)) }
        \cup RoomMessages({<<"3", "1", ".", "5">>, <<>>})
\* the messages delivered while the exporter is followed: a reading and an
\* out-of-range one, for every configured room
ExportMessages == RoomMessages({Chars(30), Chars(60)})

----------------------------------------------------------------------------
(* Inputs: what one request to the backend gives the client *)

Ok(status) == [kind |-> "ok", status |-> status]
RequestException == [kind |-> "RequestException"]
OtherException == [kind |-> "Exception"]

\* GET /<room>/status: a 200 whose status field is "active", "inactive" or a
\* value the client does not know, a 200 without the field (.get gives None),
\* a transport or HTTP error, any other exception
GetResponses ==
    { Ok("active"), Ok("inactive"), Ok("weirdvalue"), Ok(None),
      RequestException, OtherException }

\* POST /<room>/command: a 200, a transport or HTTP error, any other exception
PostResponses == { Ok(None), RequestException, OtherException }

\* variant: the command is "activate" whatever the argument
CommandName_always(act) == "activate"
\* line 158
CommandName(act) == IF act THEN "activate" ELSE "deactivate"
\* lines 162-167: the request of send_hvac_command(r, act), its URL as the
\* path segments after the host
CommandRequest(r, act) ==
    [url |-> <<"api", "hvac", r, "command">>, json |-> [command |-> CommandName(act)]]

\* mock_legacy_api.py: the rooms of the backend, and the requests its command
\* endpoint answers with 200 (404 and 400 for the others)
BackendRooms == {AllRooms[i] : i \in 1..Len(AllRooms)}
Accepts(req) ==
    /\ req.url[3] \in BackendRooms
    /\ req.json.command \in {"activate", "deactivate"}
\* what the client can get for the request
Replies(req) == IF Accepts(req) THEN PostResponses ELSE PostResponses \ {Ok(None)}

----------------------------------------------------------------------------
(* MiddlewareService.__init__, and run() up to the first poll *)

\* dashboard.py lines 32-37: the four tables of a response, none read yet
Exported == {"temperatures", "hvac_active", "sensor_error", "api_error"}
NoSnapshot == [t \in {} |-> None]
\* mock_legacy_api.py lines 16-22
InitialStatus == [r \in BackendRooms |-> "inactive"]
\* no request has been answered yet
NoResponse == [code |-> 0, body |-> [error |-> "no request"]]
\* no on_message call is between two of its assignments
NotListening == [post |-> <<>>, todo |-> <<>>, before |-> <<>>]

Init ==
    /\ temperatures = [i \in 1..Len(ROOMS) |-> <<ROOMS[i], 0>>]
    /\ hvac_active = [r \in RoomSet |-> None]
    /\ invalid_counts = [r \in RoomSet |-> 0]
    /\ sensor_error = [r \in RoomSet |-> FALSE]
    /\ api_error = [r \in RoomSet |-> FALSE]
    /\ pc = "poll"
    /\ poll_idx = 1
    /\ temps = <<>>
    /\ room = None
    /\ activate = FALSE
    /\ attempt = 0
    /\ invalid_run = [r \in RoomSet |-> 0]
    /\ listening = NotListening
    /\ export_pc = "idle"
    /\ snapshot = NoSnapshot
    /\ stood = {}
    /\ connection = "connected"
    /\ room_status = InitialStatus
    /\ response = NoResponse
    /\ accepted = <<>>

----------------------------------------------------------------------------
(* The listener *)

\* history bookkeeping, from the message alone
InvalidRunAfter(msg) ==
    IF HasRoom(msg.topic) /\ TopicRoom(msg.topic) \in RoomSet
    THEN LET r == TopicRoom(msg.topic) IN
         IF msg.payload \in InvalidPayloads
         THEN [invalid_run EXCEPT ![r] = IF @ < Invalid_Data_Limit THEN @ + 1 ELSE @]
         ELSE [invalid_run EXCEPT ![r] = 0]
    ELSE invalid_run

\* the five tables of the service as they are now
Self ==
    [temperatures |-> temperatures, hvac_active |-> hvac_active,
     invalid_counts |-> invalid_counts, sensor_error |-> sensor_error,
     api_error |-> api_error]

\* lines 103-108: what the try block raises before its first assignment:
\* split("/")[1] an IndexError, float() and the range check a ValueError
NoException == [kind |-> "none"]
IndexError == [kind |-> "IndexError"]
Thrown(msg) ==
    IF ~HasRoom(msg.topic) THEN IndexError
    ELSE IF ~InRange(FloatOf[msg.payload]) THEN ValueError
    ELSE NoException

\* variant: the handler is for ValueError alone
Caught_value_only(e) == e.kind = "ValueError"
\* line 114: except (ValueError, IndexError)
Caught(e) == e.kind \in {"ValueError", "IndexError"}

\* lines 144 and 151, 174 and 179: the exceptions of a request that
\* poll_hvac_status and send_hvac_command catch
CaughtByPoll(resp) == resp.kind \in {"RequestException", "Exception"}
CaughtBySend(resp) == resp.kind \in {"RequestException", "Exception"}

\* lines 99-127: the tables when on_message(msg) returns, or is left by an
\* exception it does not catch
Handled(msg) ==
    IF Thrown(msg) = NoException
    THEN LET r == TopicRoom(msg.topic) IN
         [Self EXCEPT !.temperatures = SetItem(temperatures, r, FloatOf[msg.payload].tenths),
                      !.invalid_counts = Put(invalid_counts, r, 0),
                      !.sensor_error = Put(sensor_error, r, FALSE)]
    ELSE IF ~Caught(Thrown(msg)) THEN Self
    ELSE \* except (ValueError, IndexError)
         LET r == IF HasRoom(msg.topic) THEN TopicRoom(msg.topic) ELSE None IN
         IF r \in DOMAIN invalid_counts
         THEN [Self EXCEPT !.invalid_counts = Put(invalid_counts, r, invalid_counts[r] + 1),
                           !.sensor_error = IF LimitReached(invalid_counts[r] + 1)
                                            THEN Put(sensor_error, r, TRUE)
                                            ELSE sensor_error]
         ELSE Self

\* the counters on_message(msg) leaves stay within the model's cap
WithinCap(msg) ==
    LET counts == Handled(msg).invalid_counts IN
    \A r \in DOMAIN counts : counts[r] <= MaxInvalid

on_message(msg) ==
    /\ WithinCap(msg)
    /\ LET post == Handled(msg) IN
       /\ temperatures' = post.temperatures
       /\ hvac_active' = post.hvac_active
       /\ invalid_counts' = post.invalid_counts
       /\ sensor_error' = post.sensor_error
       /\ api_error' = post.api_error
    /\ invalid_run' = InvalidRunAfter(msg)
    /\ UNCHANGED <<pc, poll_idx, temps, room, activate, attempt>>

----------------------------------------------------------------------------
(* run(): the seed polls *)

\* variant: every status but "inactive" counts as active
IsActive_unless_inactive(status) == status # "inactive"
\* line 140: status == "active"
IsActive(status) == status = "active"

\* variant: the loop starts after the first seed poll
PollReturn_first ==
    /\ attempt' = 0
    /\ poll_idx' = 0 /\ pc' = "copy"
\* poll_hvac_status returns: the for loop of line 195 goes on, or the loop starts
PollReturn ==
    /\ attempt' = 0
    /\ IF poll_idx < Len(ROOMS)
       THEN poll_idx' = poll_idx + 1 /\ pc' = "poll"
       ELSE poll_idx' = 0 /\ pc' = "copy"

\* one attempt of poll_hvac_status(ROOMS[poll_idx])
poll_hvac_status(resp) ==
    /\ pc = "poll"
    /\ LET r == ROOMS[poll_idx] IN
       CASE resp.kind = "ok" ->
              /\ hvac_active' = Put(hvac_active, r, PyBool(IsActive(resp.status)))
              /\ api_error' = Put(api_error, r, FALSE)
              /\ PollReturn
         [] resp.kind = "RequestException" ->
              IF Exhausted(attempt)
              THEN /\ api_error' = Put(api_error, r, TRUE)
                   /\ UNCHANGED hvac_active
                   /\ PollReturn
              ELSE /\ attempt' = attempt + 1
                   /\ UNCHANGED <<hvac_active, api_error, pc, poll_idx>>
         [] OTHER -> \* line 151: logged, nothing recorded
              /\ UNCHANGED <<hvac_active, api_error>>
              /\ PollReturn
    /\ UNCHANGED <<temps, room, activate>>
    /\ UNCHANGED listener_vars
    /\ UNCHANGED exporter_vars
    /\ UNCHANGED mqtt_vars /\ UNCHANGED backend_vars

----------------------------------------------------------------------------
(* run(): the control loop *)

\* line 201
run_copy ==
    /\ pc = "copy"
    /\ temps' = temperatures
    /\ pc' = "eval"
    /\ UNCHANGED <<hvac_active, api_error, poll_idx, room, activate, attempt>>
    /\ UNCHANGED listener_vars
    /\ UNCHANGED exporter_vars
    /\ UNCHANGED mqtt_vars /\ UNCHANGED backend_vars

\* lines 205-213 index sensor_error, then api_error unless the room is skipped
\* for its sensor error, then hvac_active unless it is skipped: a key that is
\* missing where it is looked up raises
KeyError(r) ==
    \/ r \notin DOMAIN sensor_error
    \/ ~sensor_error[r] /\ r \notin DOMAIN api_error
    \/ ~sensor_error[r] /\ ~api_error[r] /\ r \notin DOMAIN hvac_active

\* variant: a fault of any room makes the loop skip the room
Skipped_any_fault(r) == \E x \in DOMAIN api_error : sensor_error[x] \/ api_error[x]
\* variant: only the sensor error is looked at
Skipped_sensor_only(r) == sensor_error[r]
\* variant: only the API error is looked at
Skipped_api_only(r) == api_error[r]
\* lines 205-210: the room is skipped
Skipped(r) == sensor_error[r] \/ api_error[r]

\* where the loop stands: no command in progress, or the call of
\* send_hvac_command(r, act) about to make its first attempt
\* variant: the exception of line 226 leaves run()
Going_or_raising(at) ==
    [pc |-> IF at = "copy" THEN "stopped" ELSE at, room |-> None, activate |-> FALSE]
Going(at) == [pc |-> at, room |-> None, activate |-> FALSE]
\* variant: the opposite command is called for
Call_opposite(r, act) == [pc |-> "send", room |-> r, activate |-> ~act]
\* variant: the command is handed over and the loop goes on at once
Call_detached(r, act) == [pc |-> "eval", room |-> r, activate |-> act]
Call(r, act) == [pc |-> "send", room |-> r, activate |-> act]

\* variant: the decision is taken on the reading the table holds now
Evaluated_live(r, temp) ==
    IF KeyError(r)
    THEN Going("copy")
    ELSE IF Skipped(r) THEN Going("eval")
    ELSE IF should_activate(Get(temperatures, r)) /\ hvac_active[r] # "True"
    THEN Call(r, TRUE)
    ELSE IF ~should_activate(Get(temperatures, r)) /\ hvac_active[r] # "False"
    THEN Call(r, FALSE)
    ELSE Going("eval")
\* lines 203-223 for the item <<r, temp>> of the copy, up to the call of
\* send_hvac_command
Evaluated(r, temp) ==
    IF KeyError(r)
    THEN Going("copy")  \* caught at line 226: the while loop starts over
    ELSE IF Skipped(r) THEN Going("eval")
    ELSE IF should_activate(temp) /\ hvac_active[r] # "True" THEN Call(r, TRUE)
    ELSE IF ~should_activate(temp) /\ hvac_active[r] # "False" THEN Call(r, FALSE)
    ELSE Going("eval")

run_evaluate ==
    /\ pc = "eval"
    /\ IF temps = <<>>
       THEN /\ pc' = "sleep"
            /\ UNCHANGED <<temps, room, activate>>
       ELSE LET next == Evaluated(Head(temps)[1], Head(temps)[2]) IN
            /\ pc' = next.pc
            /\ room' = next.room
            /\ activate' = next.activate
            /\ temps' = IF next.pc = "copy" THEN <<>> ELSE Tail(temps)
    /\ UNCHANGED <<hvac_active, api_error, poll_idx, attempt>>
    /\ UNCHANGED listener_vars
    /\ UNCHANGED exporter_vars
    /\ UNCHANGED mqtt_vars /\ UNCHANGED backend_vars

\* lines 159-186: api_error, and whether the call has returned, after the
\* attempt in progress got resp
Attempted(resp) ==
    IF resp.kind = "ok" \/ Exhausted(attempt)
    THEN [api_error |-> CommandOutcome(api_error, room, resp.kind = "ok"),
          pc |-> "set_active", attempt |-> 0]
    ELSE \* lines 174-183: every exception is logged and the loop goes on
         [api_error |-> api_error, pc |-> "send", attempt |-> attempt + 1]

\* one attempt of send_hvac_command(room, activate)
send_hvac_command(resp) ==
    /\ pc = "send"
    /\ LET post == Attempted(resp) IN
       /\ api_error' = post.api_error
       /\ pc' = post.pc
       /\ attempt' = post.attempt
    /\ UNCHANGED <<hvac_active, poll_idx, temps, room, activate>>
    /\ UNCHANGED listener_vars
    /\ UNCHANGED exporter_vars
    /\ UNCHANGED mqtt_vars /\ UNCHANGED backend_vars

\* lines 218 and 223, after send_hvac_command has returned
run_set_active ==
    /\ pc = "set_active"
    /\ hvac_active' = Put(hvac_active, room, PyBool(activate))
    /\ pc' = "eval"
    /\ room' = None
    /\ activate' = FALSE
    /\ UNCHANGED <<api_error, poll_idx, temps, attempt>>
    /\ UNCHANGED listener_vars
    /\ UNCHANGED exporter_vars
    /\ UNCHANGED mqtt_vars /\ UNCHANGED backend_vars

\* variant: the rooms are polled again after every cycle
run_sleep_repoll ==
    /\ pc = "sleep"
    /\ pc' = "poll" /\ poll_idx' = 1
    /\ UNCHANGED <<hvac_active, api_error, temps, room, activate, attempt>>
    /\ UNCHANGED listener_vars
    /\ UNCHANGED exporter_vars
    /\ UNCHANGED mqtt_vars /\ UNCHANGED backend_vars
\* line 225
run_sleep ==
    /\ pc = "sleep"
    /\ pc' = "copy"
    /\ UNCHANGED <<hvac_active, api_error, poll_idx, temps, room, activate, attempt>>
    /\ UNCHANGED listener_vars
    /\ UNCHANGED exporter_vars
    /\ UNCHANGED mqtt_vars /\ UNCHANGED backend_vars

----------------------------------------------------------------------------
(* The listener seen from another thread: on_message makes its assignments   *)
(* one at a time, without a lock, and a thread switch can fall between two.  *)

\* the tables a response of the dashboard holds, as they are now
Tables == [t \in Exported |-> Self[t]]

\* lines 110-112, or 122-125: the tables on_message(msg) assigns to, in order
Writes(msg) ==
    IF HasRoom(msg.topic) /\ InRange(FloatOf[msg.payload])
    THEN <<"temperatures", "invalid_counts", "sensor_error">>
    ELSE IF HasRoom(msg.topic) /\ TopicRoom(msg.topic) \in DOMAIN invalid_counts
    THEN IF LimitReached(invalid_counts[TopicRoom(msg.topic)] + 1)
         THEN <<"invalid_counts", "sensor_error">>
         ELSE <<"invalid_counts">>
    ELSE <<>>

\* one assignment of the handler: table w takes its value of post
Assign(w, post) ==
    /\ temperatures' = IF w = "temperatures" THEN post.temperatures ELSE temperatures
    /\ invalid_counts' = IF w = "invalid_counts" THEN post.invalid_counts ELSE invalid_counts
    /\ sensor_error' = IF w = "sensor_error" THEN post.sensor_error ELSE sensor_error
    /\ UNCHANGED <<hvac_active, api_error>>

\* a step of the listener or of run() is complete: the tables as they now
\* stand are recorded for the export in progress
Completed(post) ==
    /\ stood' = IF export_pc \in {"reading", "done"}
                THEN stood \cup {[t \in Exported |-> post[t]]}
                ELSE stood
    /\ Cardinality(stood') <= MaxStood

\* the handler goes on to its next assignment, or returns
Advance(post, rest, before) ==
    IF rest = <<>>
    THEN listening' = NotListening /\ Completed(post)
    ELSE /\ listening' = [post |-> post, todo |-> rest, before |-> before]
         /\ UNCHANGED stood

\* on_message(msg) up to and including its first assignment
on_message_enter(msg) ==
    /\ listening = NotListening
    /\ WithinCap(msg)
    /\ Writes(msg) # <<>>
    /\ Assign(Head(Writes(msg)), Handled(msg))
    /\ Advance(Handled(msg), Tail(Writes(msg)), Tables)
    /\ invalid_run' = InvalidRunAfter(msg)
    /\ UNCHANGED <<pc, poll_idx, temps, room, activate, attempt, export_pc, snapshot>>
    /\ UNCHANGED mqtt_vars /\ UNCHANGED backend_vars

\* the next assignment of the on_message call in progress
on_message_resume ==
    /\ listening # NotListening
    /\ Assign(Head(listening.todo), listening.post)
    /\ Advance(listening.post, Tail(listening.todo), listening.before)
    /\ UNCHANGED <<pc, poll_idx, temps, room, activate, attempt, export_pc, snapshot,
                   invalid_run>>
    /\ UNCHANGED mqtt_vars /\ UNCHANGED backend_vars

----------------------------------------------------------------------------
(* The exporter: api_status and background_broadcast of dashboard.py put the *)
(* four live tables in a dict and have it serialised, taking no lock.        *)

\* table t is read into the response
export_read(t) ==
    /\ export_pc \in {"idle", "reading"}
    /\ t \notin DOMAIN snapshot
    /\ snapshot' = Put(snapshot, t, Self[t])
    /\ export_pc' = IF DOMAIN snapshot' = Exported THEN "done" ELSE "reading"
    /\ stood' = IF export_pc = "idle"
                THEN {IF listening = NotListening THEN Tables ELSE listening.before}
                ELSE stood
    /\ UNCHANGED <<temperatures, hvac_active, invalid_counts, sensor_error, api_error,
                   pc, poll_idx, temps, room, activate, attempt, invalid_run, listening>>
    /\ UNCHANGED mqtt_vars /\ UNCHANGED backend_vars

\* the response is returned (line 39) or emitted (line 52)
export_return ==
    /\ export_pc = "done"
    /\ export_pc' = "idle"
    /\ snapshot' = NoSnapshot
    /\ stood' = {}
    /\ UNCHANGED <<temperatures, hvac_active, invalid_counts, sensor_error, api_error,
                   pc, poll_idx, temps, room, activate, attempt, invalid_run, listening>>
    /\ UNCHANGED mqtt_vars /\ UNCHANGED backend_vars

\* lines 230-232: Ctrl+C raises KeyboardInterrupt in the main thread wherever
\* run() is, inside requests.get, requests.post and time.sleep too; it is no
\* Exception, so no handler of poll_hvac_status, send_hvac_command or line 226
\* catches it: run() is left at once, with its tables as they are
KeyboardInterrupt ==
    /\ pc # "stopped"
    /\ pc' = "stopped"
    /\ UNCHANGED <<hvac_active, api_error, poll_idx, temps, room, activate, attempt>>
    /\ UNCHANGED listener_vars
    /\ UNCHANGED exporter_vars
    /\ UNCHANGED mqtt_vars /\ UNCHANGED backend_vars

----------------------------------------------------------------------------
(* The MQTT connection.  on_disconnect runs on the network thread, which    *)
(* delivers no message until it returns.                                    *)

\* variant: the handler returns after a failed attempt
AfterFailure_give_up == "lost"
\* lines 95-97: a failed attempt is followed by time.sleep(2) and another
AfterFailure == "waiting"

\* line 86: the client has lost its connection and calls the handler
on_disconnect ==
    /\ connection = "connected"
    /\ connection' = "reconnecting"
    /\ UNCHANGED <<temperatures, hvac_active, invalid_counts, sensor_error, api_error,
                   pc, poll_idx, temps, room, activate, attempt, invalid_run>>
    /\ UNCHANGED exporter_vars /\ UNCHANGED backend_vars

\* lines 90-97: client.reconnect() returns (break), or raises
reconnect(ok) ==
    /\ connection = "reconnecting"
    /\ connection' = IF ok THEN "connected" ELSE AfterFailure
    /\ UNCHANGED <<temperatures, hvac_active, invalid_counts, sensor_error, api_error,
                   pc, poll_idx, temps, room, activate, attempt, invalid_run>>
    /\ UNCHANGED exporter_vars /\ UNCHANGED backend_vars

\* line 97: time.sleep(2) returns
reconnect_sleep ==
    /\ connection = "waiting"
    /\ connection' = "reconnecting"
    /\ UNCHANGED <<temperatures, hvac_active, invalid_counts, sensor_error, api_error,
                   pc, poll_idx, temps, room, activate, attempt, invalid_run>>
    /\ UNCHANGED exporter_vars /\ UNCHANGED backend_vars

----------------------------------------------------------------------------
(* mock_legacy_api.py: the backend's two endpoints, for requests that carry *)
(* the right credentials                                                    *)

\* request.get_json(silent=True): a body, or none
NoJson == [k \in {} |-> None]
Bodies ==
    { [command |-> "activate"], [command |-> "deactivate"], [command |-> "toggle"],
      [order |-> "activate"], NoJson }
RequestRooms == BackendRooms \cup {"nonexistent"}

\* variant: a command flips the status
StatusAfter_toggle(old, cmd) == IF old = "active" THEN "inactive" ELSE "active"
\* line 100
StatusAfter(old, cmd) == IF cmd = "activate" THEN "active" ELSE "inactive"

\* lines 56-67: the response of GET /api/hvac/<r>/status
Status(rs, r) ==
    IF r \notin DOMAIN rs
    THEN [code |-> 404, body |-> [error |-> "Room not found"]]
    ELSE [code |-> 200, body |-> [room |-> r, status |-> rs[r]]]

\* lines 69-105: the table and the response after POST /api/hvac/<r>/command
Commanded(rs, r, data) ==
    IF r \notin DOMAIN rs
    THEN [room_status |-> rs, response |-> [code |-> 404, body |-> [error |-> "Room not found"]]]
    ELSE IF DOMAIN data = {} \/ "command" \notin DOMAIN data
    THEN [room_status |-> rs,
          response |-> [code |-> 400, body |-> [error |-> "Missing 'command' in request body"]]]
    ELSE IF data.command \notin {"activate", "deactivate"}
    THEN [room_status |-> rs, response |-> [code |-> 400, body |-> [error |-> "Invalid command"]]]
    ELSE LET after == [rs EXCEPT ![r] = StatusAfter(rs[r], data.command)]
         IN  [room_status |-> after,
              response |-> [code |-> 200, body |-> [room |-> r, status |-> after[r]]]]

get_status(r) ==
    /\ response' = Status(room_status, r)
    /\ UNCHANGED <<room_status, accepted>>
    /\ UNCHANGED <<temperatures, hvac_active, invalid_counts, sensor_error, api_error,
                   pc, poll_idx, temps, room, activate, attempt, invalid_run>>
    /\ UNCHANGED exporter_vars /\ UNCHANGED mqtt_vars

command(r, data) ==
    LET c == Commanded(room_status, r, data)
    IN  /\ Len(accepted) < MaxAccepted
        /\ room_status' = c.room_status
        /\ response' = c.response
        /\ accepted' = IF c.response.code = 200
                         THEN Append(accepted, <<r, data.command>>)
                         ELSE accepted
        /\ UNCHANGED <<temperatures, hvac_active, invalid_counts, sensor_error, api_error,
                       pc, poll_idx, temps, room, activate, attempt, invalid_run>>
        /\ UNCHANGED exporter_vars /\ UNCHANGED mqtt_vars

----------------------------------------------------------------------------
(* poll_hvac_status called on a service that has been constructed and not   *)
(* started, as test_middleware_service.py calls it: any room id, and an     *)
(* hvac_active table from which entries have been deleted                   *)

CallRooms == RoomSet \cup {"roomX"}
ActiveTables ==
    UNION { [S -> {"None", "True", "False"}] : S \in SUBSET RoomSet }

InitCall ==
    /\ temperatures = [i \in 1..Len(ROOMS) |-> <<ROOMS[i], 0>>]
    /\ hvac_active \in ActiveTables
    /\ invalid_counts = [r \in RoomSet |-> 0]
    /\ sensor_error = [r \in RoomSet |-> FALSE]
    /\ api_error = [r \in RoomSet |-> FALSE]
    /\ pc = "constructed"
    /\ poll_idx = 0
    /\ temps = <<>>
    /\ room = None
    /\ activate = FALSE
    /\ attempt = 0
    /\ invalid_run = [r \in RoomSet |-> 0]
    /\ listening = NotListening
    /\ export_pc = "idle"
    /\ snapshot = NoSnapshot
    /\ stood = {}
    /\ connection = "connected"
    /\ room_status = InitialStatus
    /\ response = NoResponse
    /\ accepted = <<>>

\* lines 129-154: the two tables, the attempt counter and whether the call
\* has returned, after the attempt in progress of poll_hvac_status(r) got resp
Polled(r, resp) ==
    CASE resp.kind = "ok" ->
           [hvac_active |-> Put(hvac_active, r, PyBool(IsActive(resp.status))),
            api_error |-> Put(api_error, r, FALSE),
            attempt |-> 0, returned |-> TRUE]
      [] resp.kind = "RequestException" ->
           IF Exhausted(attempt)
           THEN [hvac_active |-> hvac_active, api_error |-> Put(api_error, r, TRUE),
                 attempt |-> 0, returned |-> TRUE]
           ELSE [hvac_active |-> hvac_active, api_error |-> api_error,
                 attempt |-> attempt + 1, returned |-> FALSE]
      [] OTHER ->
           [hvac_active |-> hvac_active, api_error |-> api_error,
            attempt |-> 0, returned |-> TRUE]

\* the test calls service.poll_hvac_status(r)
call_poll(r) ==
    /\ pc = "constructed"
    /\ pc' = "polling" /\ room' = r /\ attempt' = 0
    /\ UNCHANGED <<hvac_active, api_error, poll_idx, temps, activate>>
    /\ UNCHANGED listener_vars
    /\ UNCHANGED exporter_vars
    /\ UNCHANGED mqtt_vars /\ UNCHANGED backend_vars

\* one attempt of the call
poll_attempt(resp) ==
    /\ pc = "polling"
    /\ LET post == Polled(room, resp) IN
       /\ hvac_active' = post.hvac_active
       /\ api_error' = post.api_error
       /\ attempt' = post.attempt
       /\ pc' = IF post.returned THEN "constructed" ELSE "polling"
       /\ room' = IF post.returned THEN None ELSE room
    /\ UNCHANGED <<poll_idx, temps, activate>>
    /\ UNCHANGED listener_vars
    /\ UNCHANGED exporter_vars
    /\ UNCHANGED mqtt_vars /\ UNCHANGED backend_vars

----------------------------------------------------------------------------
(* The service and the backend together: a request reaches the backend or   *)
(* not, and the response of a request that was served reaches the client or *)
(* is lost (timeout=2).  The history of accepted commands is not kept here. *)

\* the service starts against a backend that may have served the commands of
\* an earlier run for the configured rooms
InitPlant ==
    /\ temperatures = [i \in 1..Len(ROOMS) |-> <<ROOMS[i], 0>>]
    /\ hvac_active = [r \in RoomSet |-> None]
    /\ invalid_counts = [r \in RoomSet |-> 0]
    /\ sensor_error = [r \in RoomSet |-> FALSE]
    /\ api_error = [r \in RoomSet |-> FALSE]
    /\ pc = "poll"
    /\ poll_idx = 1
    /\ temps = <<>>
    /\ room = None
    /\ activate = FALSE
    /\ attempt = 0
    /\ invalid_run = [r \in RoomSet |-> 0]
    /\ listening = NotListening
    /\ export_pc = "idle"
    /\ snapshot = NoSnapshot
    /\ stood = {}
    /\ connection = "connected"
    /\ room_status \in
           { rs \in [BackendRooms -> {"active", "inactive"}] :
                \A r \in BackendRooms \ RoomSet : rs[r] = InitialStatus[r] }
    /\ response = NoResponse
    /\ accepted = <<>>

\* the readings delivered while the backend is followed
PlantMessages == RoomMessages({Chars(30), <<"3", "1", ".", "5">>})

\* what requests.get can give for room r: the backend's answer, or a failure
StatusResponses(r) ==
    { IF Status(room_status, r).code = 200
      THEN Ok(Status(room_status, r).body.status) ELSE RequestException,
      RequestException, OtherException }

\* what requests.post can give: raise_for_status raises for a 404 or a 400
PostOutcomes(served) ==
    IF served /\ Commanded(room_status, room, CommandRequest(room, activate).json).response.code = 200
    THEN {Ok(None), RequestException}
    ELSE {RequestException, OtherException}

\* one attempt of send_hvac_command(room, activate) against the backend
send_to_backend(served, resp) ==
    /\ pc = "send"
    /\ LET post == Attempted(resp)
           c == Commanded(room_status, room, CommandRequest(room, activate).json)
       IN  /\ api_error' = post.api_error
           /\ pc' = post.pc
           /\ attempt' = post.attempt
           /\ room_status' = IF served THEN c.room_status ELSE room_status
           /\ response' = IF served THEN c.response ELSE response
    /\ UNCHANGED <<hvac_active, poll_idx, temps, room, activate, accepted>>
    /\ UNCHANGED listener_vars
    /\ UNCHANGED exporter_vars
    /\ UNCHANGED mqtt_vars

----------------------------------------------------------------------------
(* Specifications *)

Listen == \E msg \in CoreMessages : on_message(msg) /\ UNCHANGED exporter_vars /\ UNCHANGED mqtt_vars /\ UNCHANGED backend_vars
ListenAll == \E msg \in Messages : on_message(msg) /\ UNCHANGED exporter_vars /\ UNCHANGED mqtt_vars /\ UNCHANGED backend_vars
Poll == \E resp \in GetResponses : poll_hvac_status(resp)
Send == \E resp \in Replies(CommandRequest(room, activate)) : send_hvac_command(resp)

Next ==
    \/ Listen
    \/ Poll
    \/ run_copy
    \/ run_evaluate
    \/ Send
    \/ run_set_active
    \/ run_sleep

Spec == Init /\ [][Next]_vars

\* the listener alone, while run() waits in its first request
NextIngest == ListenAll
SpecIngest == Init /\ [][NextIngest]_vars

\* the service with a control thread that keeps running (every blocking call
\* of run() returns) and a backend that is reachable again and again: a
\* command that keeps being attempted gets a 200 in the end
SendOk == send_hvac_command(Ok(None))
Fairness ==
    /\ WF_vars(Poll) /\ WF_vars(run_copy) /\ WF_vars(run_evaluate)
    /\ WF_vars(Send) /\ WF_vars(run_set_active) /\ WF_vars(run_sleep)
    /\ SF_vars(SendOk)
SpecLive == Init /\ [][Next]_vars /\ Fairness

\* the service with messages of unconfigured rooms and of topics without a
\* room among those delivered
ListenStray == \E msg \in StrayCore : on_message(msg) /\ UNCHANGED exporter_vars /\ UNCHANGED mqtt_vars /\ UNCHANGED backend_vars
NextStray ==
    \/ ListenStray
    \/ Poll
    \/ run_copy
    \/ run_evaluate
    \/ Send
    \/ run_set_active
    \/ run_sleep
SpecStray == Init /\ [][NextStray]_vars

\* the listener and its connection, while run() waits in its first request;
\* the broker can be reached again and again: an attempt that keeps being
\* made succeeds in the end
ListenConnected ==
    /\ connection = "connected"
    /\ \E msg \in CoreMessages :
           on_message(msg) /\ UNCHANGED exporter_vars /\ UNCHANGED mqtt_vars /\ UNCHANGED backend_vars
Reconnect == \E ok \in BOOLEAN : reconnect(ok)
ReconnectOk == reconnect(TRUE)
NextMqtt == ListenConnected \/ on_disconnect \/ Reconnect \/ reconnect_sleep
SpecMqtt ==
    /\ Init /\ [][NextMqtt]_vars
    /\ WF_vars(Reconnect) /\ WF_vars(reconnect_sleep) /\ SF_vars(ReconnectOk)

\* the service until it is interrupted: the process ends when run() returns
ListenRunning == pc # "stopped" /\ Listen
NextStop ==
    \/ ListenRunning
    \/ Poll
    \/ run_copy
    \/ run_evaluate
    \/ Send
    \/ run_set_active
    \/ run_sleep
    \/ KeyboardInterrupt
SpecStop == Init /\ [][NextStop]_vars

\* the service with the backend of mock_legacy_api.py
ListenPlant ==
    \E msg \in PlantMessages :
        on_message(msg) /\ UNCHANGED exporter_vars
            /\ UNCHANGED mqtt_vars /\ UNCHANGED backend_vars
PollBackend ==
    /\ pc = "poll"
    /\ \E resp \in StatusResponses(ROOMS[poll_idx]) : poll_hvac_status(resp)
SendBackend ==
    \E served \in BOOLEAN : \E resp \in PostOutcomes(served) : send_to_backend(served, resp)
NextPlant ==
    \/ ListenPlant
    \/ PollBackend
    \/ run_copy
    \/ run_evaluate
    \/ SendBackend
    \/ run_set_active
    \/ run_sleep
SpecPlant == InitPlant /\ [][NextPlant]_vars

\* poll_hvac_status called from outside run()
CallPoll == \E r \in CallRooms : call_poll(r)
PollAttempt == \E resp \in GetResponses : poll_attempt(resp)
NextCall == CallPoll \/ PollAttempt
SpecCall == InitCall /\ [][NextCall]_vars

\* the backend alone, before the middleware's first request
GetStatus == \E r \in RequestRooms : get_status(r)
Command == \E r \in RequestRooms, data \in Bodies : command(r, data)
NextBackend == GetStatus \/ Command
SpecBackend == Init /\ [][NextBackend]_vars

\* the listener, assignment by assignment, and the exporter, while run()
\* waits in its first request
Enter == \E msg \in ExportMessages : on_message_enter(msg)
ExportRead == \E t \in Exported : export_read(t)
NextExport == Enter \/ on_message_resume \/ ExportRead \/ export_return
SpecExport == Init /\ [][NextExport]_vars

----------------------------------------------------------------------------
(* Properties.  A property of what a handler does is stated for every state  *)
(* the service reaches and every input of the handler there, on the tables  *)
(* the handler leaves (Handled, Evaluated, Attempted): the actions assign   *)
(* exactly these.                                                           *)

\* the control thread sends one request of the command in progress in this step
SendsRequest == pc = "send" /\ <<pc, attempt>>' # <<pc, attempt>>
\* the poll_hvac_status in progress returns in this step
PollReturns == pc = "poll" /\ poll_idx' # poll_idx
\* what the loop does with the next item of its copy
NextEvaluated == Evaluated(Head(temps)[1], Head(temps)[2])

\* C1: when the send_hvac_command the control loop called has failed (all
\* attempts exhausted, api_error set), hvac_active of the room is the same
\* after the cycle's assignment as before; it takes the desired state only
\* after a command that succeeded.
C1_FailedCommandKeepsActive ==
    [][(pc = "set_active" /\ api_error[room]) => hvac_active' = hvac_active]_vars

\* C2: no command request, first attempt or retry, is sent for a room while
\* its sensor_error or api_error is true.
C2_NoRequestWhileFaulted ==
    [][SendsRequest => ~sensor_error[room] /\ ~api_error[room]]_vars

\* C2, amended: no command request is sent for a room while its api_error is
\* true, and a command is begun only for a room whose sensor_error and
\* api_error are both false when the loop evaluates it.
C2_NoRequestWhileApiFaulted ==
    /\ pc = "send" => ~api_error[room]
    /\ (pc = "eval" /\ temps # <<>> /\ NextEvaluated.pc = "send") =>
           ~sensor_error[NextEvaluated.room] /\ ~api_error[NextEvaluated.room]

\* a retry is about to be sent for a room whose sensor fault was raised after
\* the loop evaluated it
C2_Witness == pc = "send" /\ attempt >= 1 /\ sensor_error[room] /\ ~api_error[room]

\* C3: a configured room that has had Invalid_Data_Limit invalid readings in
\* a row since its last valid one has sensor_error true.
C3_FaultAfterLimit ==
    \A r \in RoomSet : invalid_run[r] >= Invalid_Data_Limit => sensor_error[r]

C3_Witness ==
    \E r \in RoomSet : invalid_run[r] = Invalid_Data_Limit /\ sensor_error[r]

\* C4: a valid reading v (0 <= v <= 50, bounds included) for a configured
\* room sets its temperature to v, its invalid count to 0 and its
\* sensor_error to false, whatever they were.
C4_ValidReading ==
    \A r \in RoomSet, v \in ValidReadings :
        LET post == Handled(Msg(Topic(r), v[1])) IN
        /\ Get(post.temperatures, r) = v[2]
        /\ post.invalid_counts[r] = 0
        /\ ~post.sensor_error[r]

\* a room holds the reading 50 with no invalid reading after it, while
\* another room is in sensor fault
C4_Witness ==
    \E r, y \in RoomSet :
        /\ Get(temperatures, r) = 500 /\ invalid_counts[r] = 0 /\ ~sensor_error[r]
        /\ sensor_error[y]

\* C5: an invalid reading for a configured room (unparsable, empty, below 0
\* or above 50) leaves the temperatures as they were and adds exactly 1 to
\* the room's invalid count.
C5_InvalidReading ==
    \A r \in RoomSet, p \in InvalidPayloads :
        LET post == Handled(Msg(Topic(r), p)) IN
        /\ post.temperatures = temperatures
        /\ post.invalid_counts[r] = invalid_counts[r] + 1

\* a room keeps the reading 31.5 after one invalid reading
C5_Witness ==
    \E r \in RoomSet : Get(temperatures, r) = 315 /\ invalid_counts[r] = 1

\* C6: a message whose topic names room X leaves the temperature, invalid
\* count, sensor_error, api_error and hvac_active of every other configured
\* room as they were.
C6_OtherRoomsUntouched ==
    \A msg \in Messages :
        HasRoom(msg.topic) =>
            LET post == Handled(msg) IN
            \A y \in RoomSet \ {TopicRoom(msg.topic)} :
                /\ Get(post.temperatures, y) = Get(temperatures, y)
                /\ post.invalid_counts[y] = invalid_counts[y]
                /\ post.sensor_error[y] = sensor_error[y]
                /\ post.api_error[y] = api_error[y]
                /\ post.hvac_active[y] = hvac_active[y]

\* one room has taken a valid reading after its invalid ones while another
\* room keeps a reading, two counted invalid readings and no fault
C6_Witness ==
    \E x, y \in RoomSet :
        /\ x # y
        /\ invalid_run[x] = 0 /\ Get(temperatures, x) = 500
        /\ Get(temperatures, y) = 315 /\ invalid_counts[y] = 2 /\ ~sensor_error[y]

\* C7: the key sets of the five tables are the configured rooms, whatever
\* messages have been ingested.
C7_TablesKeepConfiguredKeys ==
    /\ Keys(temperatures) = RoomSet
    /\ DOMAIN invalid_counts = RoomSet
    /\ DOMAIN sensor_error = RoomSet
    /\ DOMAIN api_error = RoomSet
    /\ DOMAIN hvac_active = RoomSet

\* C8: a send_hvac_command for room X in which every attempt fails sets
\* api_error of X; one in which an attempt succeeds leaves it false; no
\* attempt changes the api_error of another room.
C8_CommandFault ==
    pc = "send" =>
        \A resp \in PostResponses :
            LET post == Attempted(resp)
                last == attempt = API_Rerty_Limit - 1
            IN /\ resp.kind = "ok" => post.pc = "set_active" /\ ~post.api_error[room]
               /\ (resp.kind # "ok" /\ last) => post.pc = "set_active" /\ post.api_error[room]
               /\ (resp.kind # "ok" /\ ~last) => post.pc = "send" /\ ~post.api_error[room]
               /\ \A y \in RoomSet \ {room} : post.api_error[y] = api_error[y]

\* a command has just failed its last attempt while another room has no fault
C8_Witness ==
    /\ pc = "set_active" /\ api_error[room]
    /\ \E y \in RoomSet \ {room} : ~api_error[y]

\* C9: a poll_hvac_status for room X that returns without a successful
\* attempt has set api_error of X and left hvac_active of X as it was; one
\* that succeeds clears api_error of X.
C9_PollFault ==
    [][\A resp \in GetResponses :
          (poll_hvac_status(resp) /\ PollReturns) =>
              LET x == ROOMS[poll_idx] IN
              IF resp.kind = "ok"
              THEN ~api_error'[x]
              ELSE api_error'[x] /\ hvac_active'[x] = hvac_active[x]]_vars

\* C10: when the control loop begins, every room whose seed poll did not
\* succeed (hvac_active still None) has api_error true.
C10_SeedFailureFaults ==
    [][(pc = "poll" /\ pc' = "copy") =>
          \A r \in RoomSet : hvac_active'[r] = None => api_error'[r]]_vars

\* the loop deals with the next item of its copy in this step
EvaluatesItem == pc = "eval" /\ temps # <<>> /\ temps' # temps

\* C11: a room whose sensor_error or api_error is true when the loop
\* evaluates it gets no backend call and keeps its hvac_active, whatever its
\* temperature.
C11_FaultedRoomSkipped ==
    [][(/\ EvaluatesItem
        /\ sensor_error[Head(temps)[1]] \/ api_error[Head(temps)[1]]) =>
          /\ pc' = "eval" /\ room' = None
          /\ hvac_active' = hvac_active /\ api_error' = api_error]_vars

\* a cycle has ended in which a room in API fault since its seed poll, with a
\* reading above the threshold, still has hvac_active unknown
C11_Witness ==
    /\ pc = "sleep"
    /\ \E r \in RoomSet :
           api_error[r] /\ hvac_active[r] = None /\ Get(temperatures, r) = 315

\* the item the loop evaluates next is a room without fault
EvaluatesSound ==
    /\ EvaluatesItem
    /\ ~sensor_error[Head(temps)[1]] /\ ~api_error[Head(temps)[1]]

\* C12: a room without fault whose hvac_active already is the desired state
\* (True when the cycle's reading is above 30, False otherwise) gets no
\* backend call and keeps its hvac_active.
C12_SteadyStateNoCall ==
    [][(/\ EvaluatesSound
        /\ hvac_active[Head(temps)[1]] = PyBool(Head(temps)[2] > 300)) =>
          /\ pc' = "eval" /\ room' = None
          /\ hvac_active' = hvac_active /\ api_error' = api_error]_vars

\* a cycle has ended with one room active at 31.5 and another inactive at
\* the threshold, neither in fault
C12_Witness ==
    /\ pc = "sleep"
    /\ \A r \in RoomSet : ~sensor_error[r] /\ ~api_error[r]
    /\ \E r, y \in RoomSet :
           /\ hvac_active[r] = "True" /\ Get(temperatures, r) = 315
           /\ hvac_active[y] = "False" /\ Get(temperatures, y) = 300

\* C13: for a room without fault whose hvac_active is not True and whose
\* reading in the cycle is above 30, the loop calls send_hvac_command(room,
\* True) once, and when the call has succeeded hvac_active of the room becomes
\* True; with hvac_active not False and a reading of 30 or less it calls
\* send_hvac_command(room, False) once and hvac_active becomes False.
C13_OneCommandConverges ==
    [][/\ EvaluatesSound =>
           LET r == Head(temps)[1]
               hot == Head(temps)[2] > 300
           IN hvac_active[r] # PyBool(hot) =>
                  /\ pc' = "send" /\ room' = r /\ activate' = hot
                  /\ attempt' = 0 /\ temps' = Tail(temps)
       /\ (pc = "send" /\ pc' # "send") =>
              pc' = "set_active" /\ UNCHANGED <<room, activate, temps>>
       /\ (pc = "set_active" /\ pc' # pc /\ ~api_error[room]) =>
              /\ hvac_active'[room] = PyBool(activate)
              /\ pc' = "eval" /\ temps' = temps]_vars

\* a deactivate command has succeeded for a room recorded as active
C13_Witness ==
    pc = "set_active" /\ ~api_error[room] /\ ~activate /\ hvac_active[room] = "True"

\* C14: a snapshot the exporter returns equals the exported tables as they
\* stood together at one point between complete steps of the listener and of
\* the control loop, during the export.
C14_SnapshotStoodTogether ==
    export_pc = "done" =>
        \/ snapshot \in stood
        \* or as they will stand when the on_message call in progress returns
        \/ /\ listening # NotListening
           /\ snapshot = [t \in Exported |-> listening.post[t]]

\* a send_hvac_command(r, act) has just failed
CommandFailed(r, act) == pc = "set_active" /\ room = r /\ activate = act /\ api_error[r]

\* C15: after a send_hvac_command has failed for a room, with the backend
\* reachable again and the room's reading still calling for the command, a
\* later cycle re-issues it: the room's api_error is cleared in the end.
C15_FailedCommandRetried ==
    \A r \in RoomSet, act \in BOOLEAN :
        CommandFailed(r, act) ~>
            (~api_error[r] \/ should_activate(Get(temperatures, r)) # act)

\* C16: at start-up poll_hvac_status is called once for every configured
\* room, in the order of ROOMS, and every one of these calls has returned
\* before the loop evaluates a room or sends a command; no poll follows.
C16_SeedPollsFirst ==
    [][/\ pc = "poll" => poll_idx \in 1..Len(ROOMS) /\ pc' \in {"poll", "copy"}
       /\ (pc = "poll" /\ poll_idx' # poll_idx) =>
              IF poll_idx < Len(ROOMS)
              THEN poll_idx' = poll_idx + 1 /\ pc' = "poll"
              ELSE poll_idx' = 0 /\ pc' = "copy"
       /\ (pc = "poll" /\ poll_idx' = poll_idx) => pc' = "poll"
       /\ pc # "poll" => poll_idx = 0 /\ pc' # "poll"]_vars

\* the loop is about to begin after every room was polled as active
C16_Witness ==
    /\ pc = "copy" /\ poll_idx = 0
    /\ \A r \in RoomSet :
           hvac_active[r] = "True" /\ Get(temperatures, r) = 0 /\ ~sensor_error[r]

\* C17: a poll_hvac_status that succeeds sets hvac_active of the room to True
\* exactly when the status field of the response is "active", to False for
\* every other or missing status, and clears api_error of the room.
C17_PollParsesStatus ==
    [][\A resp \in GetResponses :
          (resp.kind = "ok" /\ poll_hvac_status(resp)) =>
              LET x == ROOMS[poll_idx] IN
              /\ hvac_active'[x] = IF resp.status = "active" THEN "True" ELSE "False"
              /\ ~api_error'[x]]_vars

\* the second seed poll is in progress after the first room answered "active"
C17_Witness ==
    /\ pc = "poll" /\ poll_idx = 2
    /\ hvac_active[ROOMS[1]] = "True" /\ ~api_error[ROOMS[1]]

\* C18: the request of send_hvac_command(room, activate) goes to the command
\* endpoint of that room and carries "activate" when activate is true,
\* "deactivate" when it is false; when the first attempt gets a 200 the call
\* returns, having sent one request.
C18_CommandRequest ==
    pc = "send" =>
        /\ CommandRequest(room, activate) =
               [url |-> <<"api", "hvac", room, "command">>,
                json |-> [command |-> IF activate THEN "activate" ELSE "deactivate"]]
        /\ attempt = 0 => Attempted(Ok(None)).pc = "set_active"

\* an activate command for the second room has succeeded
C18_Witness ==
    /\ pc = "set_active" /\ room = ROOMS[2] /\ activate
    /\ ~api_error[room] /\ hvac_active[room] = "False"

\* the attempt in progress is the last one range(API_Rerty_Limit) allows
LastAttempt == attempt = API_Rerty_Limit - 1

\* C19: a poll_hvac_status or send_hvac_command call makes at most
\* API_Rerty_Limit attempts, makes none after one that succeeded, makes
\* another after every one that failed until the limit is reached, and
\* returns after the last.
C19_RetriesUpToLimit ==
    [][/\ attempt \in 0..(API_Rerty_Limit - 1)
       /\ \A resp \in GetResponses :
              poll_hvac_status(resp) =>
                  IF resp.kind = "ok" \/ LastAttempt
                  THEN PollReturns /\ attempt' = 0
                  ELSE pc' = "poll" /\ poll_idx' = poll_idx /\ attempt' = attempt + 1
       /\ \A resp \in PostResponses :
              send_hvac_command(resp) =>
                  IF resp.kind = "ok" \/ LastAttempt
                  THEN pc' = "set_active" /\ attempt' = 0
                  ELSE pc' = "send" /\ attempt' = attempt + 1]_vars

\* C20: no exception leaves on_message, whatever the topic (one without a
\* second segment, one of an unconfigured room) and the payload, and none
\* leaves poll_hvac_status or send_hvac_command, whatever the failure of the
\* request; the tables on_message leaves still hold every configured room.
C20_NoExceptionPropagates ==
    /\ \A msg \in Messages :
           /\ Thrown(msg) # NoException => Caught(Thrown(msg))
           /\ RoomSet \subseteq Keys(Handled(msg).temperatures)
           /\ RoomSet \subseteq DOMAIN Handled(msg).invalid_counts
           /\ RoomSet \subseteq DOMAIN Handled(msg).sensor_error
    /\ \A resp \in GetResponses : resp.kind # "ok" => CaughtByPoll(resp)
    /\ \A resp \in PostResponses : resp.kind # "ok" => CaughtBySend(resp)

\* the loop begins after a stray reading and an empty payload were handled,
\* one seed poll exhausted its attempts and another met an unexpected exception
C20_Witness ==
    /\ pc = "copy" /\ poll_idx = 0
    /\ "nonexistent" \in Keys(temperatures)
    /\ invalid_counts[ROOMS[1]] = 1
    /\ api_error[ROOMS[1]]
    /\ hvac_active[ROOMS[2]] = None /\ ~api_error[ROOMS[2]]

\* room y has no fault and its hvac_active is not what its reading asks for
Due(y) ==
    /\ ~sensor_error[y] /\ ~api_error[y]
    /\ hvac_active[y] # PyBool(Get(temperatures, y) > 300)
\* a request of a command for room y is sent in this step
RequestFor(y) == Send /\ room = y

\* C21: while the command of a room is retrying or waiting between attempts,
\* a command that is due for another room can be issued.
C21_CallsIndependent ==
    \A y \in RoomSet :
        (pc = "send" /\ attempt >= 1 /\ room # y /\ Due(y)) => ENABLED RequestFor(y)

\* C21, amended: a fault recorded for one room never keeps the loop from
\* calling for another: a room without fault whose hvac_active is not the
\* desired state gets its call when the loop evaluates it, whatever the
\* faults of the other rooms; and while a call is in progress (retries and
\* delays included) no request can be sent for another room.
C21_CallsOneAtATime ==
    /\ (pc = "eval" /\ temps # <<>>) =>
           LET y == Head(temps)[1]
               hot == Head(temps)[2] > 300
           IN (/\ \E x \in RoomSet \ {y} : api_error[x] \/ sensor_error[x]
               /\ ~sensor_error[y] /\ ~api_error[y]
               /\ hvac_active[y] # PyBool(hot)) =>
                  NextEvaluated = [pc |-> "send", room |-> y, activate |-> hot]
    /\ pc = "send" => \A y \in RoomSet \ {room} : ~ENABLED RequestFor(y)

\* a command for the second room is in progress after the command of the
\* first room failed
C21_Witness ==
    /\ pc = "send" /\ room = ROOMS[2] /\ attempt >= 1
    /\ api_error[ROOMS[1]] /\ hvac_active[ROOMS[1]] # None

\* C22: every configured room always has one hvac_active value, None, True
\* or False, and a value that is True or False never becomes None again.
C22_TriStateActive ==
    [][\A r \in RoomSet :
          /\ r \in DOMAIN hvac_active /\ r \in DOMAIN hvac_active'
          /\ hvac_active[r] \in {"None", "True", "False"}
          /\ hvac_active'[r] \in {"None", "True", "False"}
          /\ hvac_active[r] # "None" => hvac_active'[r] # "None"]_vars

\* a cycle has ended with one room active and another still unknown
C22_Witness ==
    pc = "sleep" /\ hvac_active[ROOMS[1]] = "True" /\ hvac_active[ROOMS[2]] = "None"

\* C23: the decision is the strict comparison temp > 30: a room without
\* fault at exactly 30 takes the deactivate path, and the activate path is
\* taken only for a reading above 30.
C23_StrictThreshold ==
    (pc = "eval" /\ temps # <<>>) =>
        LET r == Head(temps)[1]
            temp == Head(temps)[2]
        IN (~sensor_error[r] /\ ~api_error[r]) =>
              /\ (NextEvaluated.pc = "send" /\ NextEvaluated.activate) => temp > 300
              /\ (NextEvaluated.pc = "send" /\ ~NextEvaluated.activate) => temp <= 300
              /\ (temp = 300 /\ hvac_active[r] # "False") =>
                     NextEvaluated = [pc |-> "send", room |-> r, activate |-> FALSE]
              /\ (temp = 300 /\ hvac_active[r] = "False") => NextEvaluated.pc = "eval"

\* a deactivate command begins for an active room whose reading is exactly 30
C23_Witness ==
    /\ pc = "send" /\ attempt = 0 /\ ~activate
    /\ Get(temperatures, room) = 300 /\ hvac_active[room] = "True"

\* C24: after the connection is lost the listener attempts to reconnect,
\* waits a fixed delay after a failed attempt and attempts again, without
\* end: when attempts can succeed in the end, it is connected again.
C24_ReconnectsForEver == (connection # "connected") ~> (connection = "connected")

\* a reconnect attempt has failed after a reading was counted as invalid, and
\* the handler waits before the next attempt
C24_Witness == connection = "waiting" /\ invalid_counts[ROOMS[1]] = 1

\* the status the last accepted command for r has set, "inactive" when none
RECURSIVE LastSet(_, _)
LastSet(cmds, r) ==
    IF cmds = <<>> THEN "inactive"
    ELSE IF cmds[Len(cmds)][1] = r
         THEN (IF cmds[Len(cmds)][2] = "activate" THEN "active" ELSE "inactive")
         ELSE LastSet(SubSeq(cmds, 1, Len(cmds) - 1), r)

\* C25: after any sequence of accepted commands a room's status, as the
\* status endpoint reports it, is the one the last accepted command for the
\* room has set (activate: active, deactivate: inactive); the same command
\* applied twice leaves the table as applied once; a command changes no
\* other room's status.
C25_LastWriteWins ==
    \A r \in BackendRooms :
        /\ Status(room_status, r).code = 200
        /\ Status(room_status, r).body.status = LastSet(accepted, r)
        /\ \A cmd \in {"activate", "deactivate"} :
               LET once == Commanded(room_status, r, [command |-> cmd]).room_status
                   twice == Commanded(once, r, [command |-> cmd]).room_status
               IN  /\ once[r] = (IF cmd = "activate" THEN "active" ELSE "inactive")
                   /\ twice = once
                   /\ \A q \in BackendRooms \ {r} : once[q] = room_status[q]

\* room1 has been activated twice running and room2 deactivated after that
C25_Witness ==
    /\ accepted = << <<"room1", "activate">>, <<"room1", "activate">>,
                     <<"room2", "deactivate">> >>
    /\ room_status["room1"] = "active"
    /\ response = [code |-> 200, body |-> [room |-> "room2", status |-> "inactive"]]

\* C26: once the control loop is running no status poll is made: the loop
\* starts when the seed poll of the last configured room has returned, and
\* from then on no step of the service is a poll, through every cycle.
C26_NoPollOnceRunning ==
    [][/\ (pc = "poll" /\ pc' # "poll") =>
              poll_idx = Len(ROOMS) /\ pc' = "copy" /\ poll_idx' = 0
       /\ pc # "poll" => ~ENABLED Poll /\ pc' # "poll" /\ poll_idx' = 0]_vars

\* a whole cycle has passed and the second room, whose seed poll failed, is
\* still unknown and faulted: it has not been polled again
C26_Witness ==
    /\ pc = "sleep" /\ poll_idx = 0 /\ ~ENABLED Poll
    /\ api_error[ROOMS[2]] /\ hvac_active[ROOMS[2]] = None
    /\ hvac_active[ROOMS[1]] = "True" /\ ~api_error[ROOMS[1]]
    /\ Get(temperatures, ROOMS[1]) > 300

\* the keys of a table in its iteration order, and those that are rooms
KeyOrder(d) == [i \in 1..Len(d) |-> d[i][1]]
RoomsIn(d) == SelectSeq(KeyOrder(d), LAMBDA k : k \in RoomSet)
IsSuffix(s, t) == \E k \in 0..Len(t) : s = SubSeq(t, k + 1, Len(t))
StraysLast(d) ==
    \A i, j \in 1..Len(d) : (d[i][1] \in RoomSet /\ d[j][1] \notin RoomSet) => i < j

\* C27: whatever messages have been ingested, the table the loop copies holds
\* the configured rooms in the order of ROOMS (room1, room2, ...), ahead of
\* every other key; every cycle begins with that copy and visits its items
\* from the front, so the rooms are evaluated in the same order in every
\* cycle.
C27_RoomsInOrder ==
    [][/\ RoomsIn(temperatures) = ROOMS /\ StraysLast(temperatures)
       /\ IsSuffix(RoomsIn(temps), ROOMS) /\ StraysLast(temps)
       /\ run_copy => RoomsIn(temps') = ROOMS /\ StraysLast(temps')
       /\ (temps' # temps /\ ~run_copy) =>
              /\ pc = "eval"
              /\ temps' = Tail(temps) \/ (pc' = "copy" /\ temps' = <<>>)]_vars

\* readings of both rooms and a message of an unconfigured room have been
\* ingested; the first room has been commanded and the loop is about to
\* evaluate the second
C27_Witness ==
    /\ pc = "eval" /\ temps # <<>> /\ Head(temps)[1] = ROOMS[2]
    /\ "nonexistent" \in Keys(temps)
    /\ Get(temperatures, ROOMS[1]) = 315 /\ Get(temperatures, ROOMS[2]) = 315
    /\ hvac_active[ROOMS[1]] = "True"

\* C28: the rooms of a cycle are processed one after the other: when the
\* evaluation of a room calls send_hvac_command, the loop is inside that call
\* until it has returned; during the call, through every retry and delay, no
\* room is evaluated, no new copy is taken and the items still to visit stay
\* as they are; the evaluation of the next item begins after the call has
\* returned and hvac_active has been assigned.
C28_RoomsSequential ==
    [][/\ (run_evaluate /\ room' # None) =>
              pc' = "send" /\ room' = Head(temps)[1] /\ temps' = Tail(temps)
       /\ pc = "send" =>
              /\ ~ENABLED run_evaluate /\ ~ENABLED run_copy /\ ~ENABLED run_sleep
              /\ temps' = temps /\ room' = room /\ activate' = activate
              /\ \/ pc' = "send" /\ attempt' \in {attempt, attempt + 1}
                    /\ attempt' < API_Rerty_Limit
                 \/ pc' = "set_active"
       /\ pc = "set_active" =>
              /\ ~ENABLED run_evaluate /\ ~ENABLED run_copy
              /\ temps' = temps /\ pc' \in {"set_active", "eval"}]_vars

\* the command of the first room is at its last attempt while the second
\* room, whose reading calls for a command too, waits in the copy
C28_Witness ==
    /\ pc = "send" /\ room = ROOMS[1] /\ attempt = API_Rerty_Limit - 1
    /\ temps # <<>> /\ Head(temps)[1] = ROOMS[2] /\ Head(temps)[2] > 300
    /\ ~sensor_error[ROOMS[2]] /\ ~api_error[ROOMS[2]]
    /\ hvac_active[ROOMS[2]] # "True"

\* C29: a shutdown never cancels a backend operation midway: run() is not
\* left while a poll or a command that has made an attempt has neither
\* succeeded nor exhausted its attempts.
C29_ShutdownAfterSequence ==
    [][(pc \in {"poll", "send"} /\ attempt >= 1) => pc' # "stopped"]_vars

\* a step of the control loop can be taken
LoopGoesOn == ENABLED (run_copy \/ run_evaluate \/ Send \/ run_set_active \/ run_sleep)

\* C30: an exception raised in a cycle never ends the loop: run() stays in
\* its loop and can always take its next step; the exception (the KeyError
\* of a key that is no configured room) starts the next cycle, and it comes
\* only after every configured room of the cycle has been evaluated; every
\* cycle begins with all the configured rooms and ends, by an exception or
\* not, with none of them left.
C30_LoopSurvivesException ==
    [][/\ pc \in {"poll", "copy", "eval", "send", "set_active", "sleep"}
       /\ pc' \in {"poll", "copy", "eval", "send", "set_active", "sleep"}
       /\ pc # "poll" => LoopGoesOn
       /\ (run_evaluate /\ temps # <<>> /\ KeyError(Head(temps)[1])) =>
              /\ Head(temps)[1] \notin RoomSet
              /\ pc' = "copy" /\ LoopGoesOn'
       /\ (pc = "eval" /\ pc' \in {"copy", "sleep"}) => RoomsIn(temps) = <<>>
       /\ run_copy => RoomsIn(temps') = ROOMS /\ pc' = "eval"]_vars

\* both rooms have been evaluated and commanded, and the item the cycle
\* comes to now is the key of an unconfigured room: its evaluation raises
C30_Witness ==
    /\ pc = "eval" /\ temps # <<>> /\ KeyError(Head(temps)[1])
    /\ \A r \in RoomSet :
           Get(temperatures, r) = 315 /\ hvac_active[r] = "True" /\ ~api_error[r]

\* C31: between the end of a cycle and the start of the next the loop waits
\* the poll interval: a cycle starts (the copy of line 201 is about to be
\* taken) only out of the wait of line 225, or out of the last seed poll for
\* the first cycle.
C31_WaitBetweenCycles ==
    [][(pc # "copy" /\ pc' = "copy") => pc \in {"sleep", "poll"}]_vars

\* C32: a poll_hvac_status that succeeds for a room id without an entry in
\* hvac_active does not fail: it returns, having recorded under that id True
\* when the status is "active" and False otherwise, cleared api_error of the
\* id, and left the entries of the other ids as they were.
C32_PollRecordsNewRoom ==
    \A r \in CallRooms, resp \in GetResponses :
        (resp.kind = "ok" /\ r \notin DOMAIN hvac_active) =>
            LET post == Polled(r, resp) IN
            /\ post.returned
            /\ DOMAIN post.hvac_active = DOMAIN hvac_active \cup {r}
            /\ post.hvac_active[r] = IF resp.status = "active" THEN "True" ELSE "False"
            /\ r \in DOMAIN post.api_error /\ ~post.api_error[r]
            /\ \A x \in DOMAIN hvac_active : post.hvac_active[x] = hvac_active[x]

\* the poll of "roomX", an id the table never held, has returned after the
\* status "active"; the entry of the first room is still deleted
C32_Witness ==
    /\ pc = "constructed"
    /\ "roomX" \in DOMAIN hvac_active /\ hvac_active["roomX"] = "True"
    /\ "roomX" \in DOMAIN api_error /\ ~api_error["roomX"]
    /\ ROOMS[1] \notin DOMAIN hvac_active

\* C33: at every cycle boundary (the copy is about to be taken, or the loop
\* waits), a configured room whose api_error is false and whose hvac_active
\* is not None has hvac_active True exactly when the backend holds "active"
\* for it, the backend being changed by this service's commands only.
C33_ActiveMatchesBackend ==
    pc \in {"copy", "sleep"} =>
        \A r \in RoomSet :
            (~api_error[r] /\ hvac_active[r] # None) =>
                (hvac_active[r] = "True" <=> room_status[r] = "active")

\* a cycle has ended after the second room was deactivated by a command the
\* backend answered with 200; the first room reads 31.5 and is active in the
\* service's table and in the backend's
C33_Witness ==
    /\ pc = "sleep"
    /\ hvac_active[ROOMS[1]] = "True" /\ room_status[ROOMS[1]] = "active"
    /\ Get(temperatures, ROOMS[1]) = 315
    /\ hvac_active[ROOMS[2]] = "False" /\ room_status[ROOMS[2]] = "inactive"
    /\ ~api_error[ROOMS[1]] /\ ~api_error[ROOMS[2]]
    /\ response = [code |-> 200, body |-> [room |-> ROOMS[2], status |-> "inactive"]]

\* C34: after every completed on_message call, every configured room has
\* sensor_error true exactly when its invalid_counts is at least
\* Invalid_Data_Limit: fewer invalid readings in a row than the limit never
\* set it, and it stays set while further invalid readings arrive.
C34_FaultIffLimit ==
    \A r \in RoomSet :
        /\ sensor_error[r] <=> invalid_counts[r] >= Invalid_Data_Limit
        /\ invalid_run[r] < Invalid_Data_Limit => ~sensor_error[r]

\* one room has had an invalid reading after the one that set its fault,
\* another is one invalid reading short of the limit
C34_Witness ==
    /\ invalid_counts[ROOMS[1]] = Invalid_Data_Limit + 1 /\ sensor_error[ROOMS[1]]
    /\ invalid_counts[ROOMS[2]] = Invalid_Data_Limit - 1 /\ ~sensor_error[ROOMS[2]]

\* C35: in every reachable state the temperature of every configured room is
\* in the closed range from 0 to 50 (in tenths of a degree), from the 0.0 of
\* the constructor on, whatever payloads have been delivered.
C35_TemperatureInRange ==
    \A r \in RoomSet :
        /\ r \in Keys(temperatures)
        /\ Get(temperatures, r) >= 0 /\ Get(temperatures, r) <= 500

\* one room holds the upper bound; the other has had invalid readings only
\* and still holds the initial 0.0
C35_Witness ==
    /\ Get(temperatures, ROOMS[1]) = 500
    /\ Get(temperatures, ROOMS[2]) = 0 /\ invalid_counts[ROOMS[2]] = 2

\* a request for room r (a status poll or a command) is in progress
RequestInProgress(r) ==
    \/ pc = "send" /\ room = r
    \/ pc = "poll" /\ ROOMS[poll_idx] = r

\* C36: in the running service api_error is absorbing: once api_error of a
\* room is true it is true after every step, and no poll or command for the
\* room is in progress, so that no request is sent for it again, whatever
\* readings arrive and whatever the backend answers.
C36_BackendFaultAbsorbing ==
    [][\A r \in RoomSet :
          api_error[r] =>
              /\ api_error'[r]
              /\ ~RequestInProgress(r) /\ ~RequestInProgress(r)']_vars

\* the first room, faulted by a failed activate command, now reads 30: the
\* loop is about to evaluate it with a reading that calls for a deactivate
C36_Witness ==
    /\ pc = "eval" /\ temps # <<>> /\ Head(temps) = <<ROOMS[1], 300>>
    /\ api_error[ROOMS[1]] /\ hvac_active[ROOMS[1]] = "True"
    /\ ~sensor_error[ROOMS[1]]

\* C37: a command sent in a cycle is determined by the copy of the
\* temperatures the cycle began with: the copy is changed by no reading that
\* is ingested during the cycle (the loop takes its items off the front, and
\* only a new cycle replaces it), and a command is called for the room of the
\* copy's front item, an activate only when the item's value is above 30, a
\* deactivate only when it is at or below 30; the command in progress keeps
\* its room and its direction until it has returned.
C37_CommandFromCopy ==
    [][/\ temps' # temps =>
              \/ pc = "copy" /\ temps' = temperatures
              \/ pc = "eval" /\ temps' = Tail(temps)
       /\ (pc = "eval" /\ pc' = "send") =>
              /\ room' = Head(temps)[1]
              /\ activate' <=> Head(temps)[2] > 300
              /\ ~activate' <=> Head(temps)[2] <= 300
       /\ (pc = "send" /\ pc' = "send") => room' = room /\ activate' = activate]_vars

\* the second room was copied at 31.5 and reads 30 by now; the loop is about
\* to evaluate it and will call for an activate
C37_Witness ==
    /\ pc = "eval" /\ temps # <<>> /\ Head(temps) = <<ROOMS[2], 315>>
    /\ Get(temperatures, ROOMS[2]) = 300
    /\ hvac_active[ROOMS[2]] = "False"
    /\ ~sensor_error[ROOMS[2]] /\ ~api_error[ROOMS[2]]

\* C38: a room that has received no reading holds the 0.0 of the
\* constructor (a room that holds none of the delivered readings, 30 and 31.5,
\* holds 0.0), and the loop evaluates it with that value: when the room is
\* not faulted and its hvac_active is True or None, the evaluation calls
\* send_hvac_command(room, False).
C38_UnsetRoomDeactivated ==
    /\ \A r \in RoomSet : Get(temperatures, r) \notin {300, 315} => Get(temperatures, r) = 0
    /\ (pc = "eval" /\ temps # <<>>) =>
           LET r == Head(temps)[1] IN
           (/\ Head(temps)[2] = 0
            /\ ~sensor_error[r] /\ ~api_error[r]
            /\ hvac_active[r] \in {"True", "None"}) =>
               /\ NextEvaluated.pc = "send"
               /\ NextEvaluated.room = r
               /\ NextEvaluated.activate = FALSE

\* the second room was polled active and has had no reading when the loop
\* comes to it; the first room has one and has been activated
C38_Witness ==
    /\ pc = "eval" /\ temps # <<>> /\ Head(temps) = <<ROOMS[2], 0>>
    /\ Get(temperatures, ROOMS[2]) = 0 /\ invalid_counts[ROOMS[2]] = 0
    /\ hvac_active[ROOMS[2]] = "True" /\ ~api_error[ROOMS[2]]
    /\ Get(temperatures, ROOMS[1]) = 315

\* C39: an attempt of poll_hvac_status(x) changes no entry but hvac_active
\* and api_error of x, and one of send_hvac_command(x, _) none but api_error
\* of x: temperatures, invalid_counts and sensor_error stay as they are for
\* every room, and so do hvac_active and api_error of every other room.
C39_CallsFrame ==
    [][/\ Poll =>
              /\ \A x \in RoomSet \ {ROOMS[poll_idx]} :
                     hvac_active'[x] = hvac_active[x] /\ api_error'[x] = api_error[x]
              /\ DOMAIN hvac_active' = RoomSet /\ DOMAIN api_error' = RoomSet
              /\ <<temperatures, invalid_counts, sensor_error>>' =
                     <<temperatures, invalid_counts, sensor_error>>
       /\ Send =>
              /\ hvac_active' = hvac_active
              /\ \A x \in RoomSet \ {room} : api_error'[x] = api_error[x]
              /\ DOMAIN api_error' = RoomSet
              /\ <<temperatures, invalid_counts, sensor_error>>' =
                     <<temperatures, invalid_counts, sensor_error>>]_vars

\* the command of the second room has failed and returned; the first room
\* keeps its sensor fault, its active state and a clear api_error, and the
\* second its invalid count
C39_Witness ==
    /\ pc = "set_active" /\ room = ROOMS[2] /\ api_error[ROOMS[2]]
    /\ hvac_active[ROOMS[1]] = "True" /\ ~api_error[ROOMS[1]] /\ sensor_error[ROOMS[1]]
    /\ invalid_counts[ROOMS[2]] = 1

====
